---- MODULE Spec2Model ----
(***************************************************************************)
(* Model of the SEA-AD Streamlit dashboard: the cohort join and derivation *)
(* (utils/prep.py: filtered, clean_data), the loaders (utils/io.py), the   *)
(* chart renderers (utils/visualizations.py), the two pages                *)
(* (sections/overview.py, sections/brain_pathology.py: app) and the        *)
(* controller that runs them (app.py).                                     *)
(*                                                                         *)
(* A table (pandas DataFrame) is [cols |-> sequence of column names,       *)
(* rows |-> sequence of rows]; a row is a function from the table's column *)
(* names to cells.  A cell is a number, a text (a sequence of characters), *)
(* a boolean or the missing value NaN.                                     *)
(***************************************************************************)
EXTENDS Integers, Sequences, FiniteSets, TLC

VARIABLES
    df_pathology,   \* the table a caller passes to filtered
    metaFile,       \* the file data/donor_metadata.xlsx
    calls,          \* the calls of filtered made so far: <<[ret, st]>>
    csvFile,        \* the file data/all_mtg.csv
    pc,             \* position of the render of brain_pathology.app
    df_filtered,    \* brain_pathology.app's local df_filtered
    page,           \* what the page has put on screen so far, in order
    selection,      \* app.py: the menu entry selected in the current run
    donor_df,       \* app.py: what load_data() gave the current run
    mtg_df,         \* app.py: what load_csv() gave the current run
    rendered,       \* the page.app(df) calls of the current run: <<[module, df]>>
    runs,           \* the earlier runs of the session, oldest first
    rtable,         \* the table handed to the chart renderers
    rlog            \* the renderer calls made on rtable: <<[name, out]>>

appVars == <<selection, donor_df, mtg_df, rendered, runs>>
renderVars == <<rtable, rlog>>

vars == <<df_pathology, metaFile, calls, csvFile, pc, df_filtered, page,
          selection, donor_df, mtg_df, rendered, runs, rtable, rlog>>

Range(s) == {s[i] : i \in 1..Len(s)}

----------------------------------------------------------------------------
(* Cells *)

Num(n)  == [k |-> "num", v |-> n]
Str(s)  == [k |-> "str", v |-> s]
Bool(b) == [k |-> "bool", v |-> b]
NaN     == [k |-> "nan", v |-> <<>>]

----------------------------------------------------------------------------
(* Texts, as sequences of characters *)

T_dementia      == <<"d", "e", "m", "e", "n", "t", "i", "a">>
T_no_dementia   == <<"n", "o", " ", "d", "e", "m", "e", "n", "t", "i", "a">>
T_nan           == <<"n", "a", "n">>
T_True          == <<"T", "r", "u", "e">>
T_False         == <<"F", "a", "l", "s", "e">>
T_Dementia      == <<"D", "e", "m", "e", "n", "t", "i", "a">>
T_No_dementia   == <<"N", "o", " ", "d", "e", "m", "e", "n", "t", "i", "a">>
T_Mild_Dementia == <<"M", "i", "l", "d", " ", "D", "e", "m", "e", "n", "t", "i", "a">>
\* "  DEMENTIA  "
T_DEMENTIA_pad  == <<" ", " ", "D", "E", "M", "E", "N", "T", "I", "A", " ", " ">>
T_Cognitively_normal ==
    <<"C", "o", "g", "n", "i", "t", "i", "v", "e", "l", "y", " ",
      "n", "o", "r", "m", "a", "l">>
T_MCI           == <<"M", "C", "I">>
\* "no dementia but possible dementia"
T_compound      ==
    <<"n", "o", " ", "d", "e", "m", "e", "n", "t", "i", "a", " ", "b", "u", "t",
      " ", "p", "o", "s", "s", "i", "b", "l", "e", " ", "d", "e", "m", "e", "n",
      "t", "i", "a">>
\* "No  dementia" (two blanks)
T_No__dementia  == <<"N", "o", " ", " ", "d", "e", "m", "e", "n", "t", "i", "a">>
T_Unavailable   == <<"U", "n", "a", "v", "a", "i", "l", "a", "b", "l", "e">>
T_31            == <<"3", "1">>
T_3x1           == <<"3", "x", "1">>
T_Not_AD        == <<"N", "o", "t", " ", "A", "D">>
T_Low           == <<"L", "o", "w">>
T_Intermediate  == <<"I", "n", "t", "e", "r", "m", "e", "d", "i", "a", "t", "e">>
T_High          == <<"H", "i", "g", "h">>
T_Female        == <<"F", "e", "m", "a", "l", "e">>
T_Male          == <<"M", "a", "l", "e">>
T_3_4           == <<"3", "/", "4">>
T_3_3           == <<"3", "/", "3">>

UpperCase ==
    <<"A", "B", "C", "D", "E", "F", "G", "H", "I", "J", "K", "L", "M", "N", "O",
      "P", "Q", "R", "S", "T", "U", "V", "W", "X", "Y", "Z">>
LowerCase ==
    <<"a", "b", "c", "d", "e", "f", "g", "h", "i", "j", "k", "l", "m", "n", "o",
      "p", "q", "r", "s", "t", "u", "v", "w", "x", "y", "z">>
Digits == <<"0", "1", "2", "3", "4", "5", "6", "7", "8", "9">>
Whitespace == {" ", "\t", "\n", "\r"}

ToLower ==
    [c \in {UpperCase[i] : i \in 1..Len(UpperCase)} |->
        LowerCase[CHOOSE i \in 1..Len(UpperCase) : UpperCase[i] = c]]

\* str.lower() on one character
LowerChar(c) == IF c \in DOMAIN ToLower THEN ToLower[c] ELSE c

\* Series.str.lower()
Lower(s) == [i \in 1..Len(s) |-> LowerChar(s[i])]

RECURSIVE LStrip(_)
LStrip(s) == IF s # <<>> /\ Head(s) \in Whitespace THEN LStrip(Tail(s)) ELSE s

RECURSIVE RStrip(_)
RStrip(s) ==
    IF s # <<>> /\ s[Len(s)] \in Whitespace
    THEN RStrip(SubSeq(s, 1, Len(s) - 1))
    ELSE s

\* Series.str.strip()
Strip(s) == RStrip(LStrip(s))

\* Python's  needle in hay  on strings: a left-to-right scan for the needle
RECURSIVE FindFrom(_, _, _)
FindFrom(hay, needle, i) ==
    IF i + Len(needle) - 1 > Len(hay) THEN FALSE
    ELSE IF SubSeq(hay, i, i + Len(needle) - 1) = needle THEN TRUE
    ELSE FindFrom(hay, needle, i + 1)

In(needle, hay) == FindFrom(hay, needle, 1)

\* the decimal digits of a natural number
RECURSIVE DigitsOf(_)
DigitsOf(n) ==
    IF n < 10 THEN <<Digits[n + 1]>>
    ELSE Append(DigitsOf(n \div 10), Digits[(n % 10) + 1])

\* Series.astype(str) on one cell
AsStr(cell) ==
    CASE cell.k = "str"  -> cell.v
      [] cell.k = "nan"  -> T_nan
      [] cell.k = "bool" -> IF cell.v THEN T_True ELSE T_False
      [] cell.k = "num"  -> DigitsOf(cell.v)

ValueOfDigit ==
    [c \in {Digits[i] : i \in 1..Len(Digits)} |->
        (CHOOSE i \in 1..Len(Digits) : Digits[i] = c) - 1]

DigitValue(c) == ValueOfDigit[c]

RECURSIVE ParseDigits(_)
ParseDigits(s) ==
    IF s = <<>> THEN 0
    ELSE 10 * ParseDigits(SubSeq(s, 1, Len(s) - 1)) + DigitValue(s[Len(s)])

\* a text pd.to_numeric parses: here, a non-empty run of decimal digits
IsNumeral(s) == s # <<>> /\ \A i \in 1..Len(s) : s[i] \in DOMAIN ValueOfDigit

\* pd.to_numeric(..., errors="ignore") would leave an unparsable text as it is
to_numeric_ignore(cell) ==
    CASE cell.k = "num" -> cell
      [] cell.k = "str" -> IF IsNumeral(cell.v) THEN Num(ParseDigits(cell.v)) ELSE cell
      [] OTHER          -> NaN

\* pd.to_numeric(..., errors="coerce") on one cell of a marker column
to_numeric(cell) ==
    CASE cell.k = "num" -> cell
      [] cell.k = "str" -> IF IsNumeral(cell.v) THEN Num(ParseDigits(cell.v)) ELSE NaN
      [] OTHER          -> NaN

----------------------------------------------------------------------------
(* Tables *)

DonorID  == "Donor ID"
AT8      == "percent AT8 positive area_Grey matter"
Abeta    == "percent 6e10 positive area_Grey matter"
pTDP43   == "percent pTDP43 positive area_Grey matter"
aSyn     == "percent aSyn positive area_Grey matter"
NeuN     == "number of NeuN positive cells per area_Grey matter"
Iba1     == "percent Iba1 positive area_Grey matter"
GFAP     == "percent GFAP positive area_Grey matter"
CognitiveStatus == "Cognitive Status"
ADNC     == "Overall AD neuropathological Change"
Dementia == "Dementia"
Dementia_status == "Dementia_status"
FreshBrainWeight == "Fresh Brain Weight"
Layer    == "Layer"
Sex      == "Sex"
AgeAtDeath   == "Age at Death"
APOEGenotype == "APOE Genotype"

\* pd.DataFrame(): no columns, no rows
EmptyDF == [cols |-> <<>>, rows |-> <<>>]

\* df.columns, as the set  c in df.columns  tests
Columns(df) == Range(df.cols)

\* df.copy() in place of df[cols].copy(): every column is kept
copy_all_columns(df, cols) == df

\* df[cols].copy(): a new table holding the named columns, in that order
Project(df, cols) ==
    [cols |-> cols,
     rows |-> [i \in 1..Len(df.rows) |-> [c \in Range(cols) |-> df.rows[i][c]]]]

\* df[name] = values, one value per row: the column is appended when it is new
WithColumn(df, name, values) ==
    [cols |-> IF name \in Columns(df) THEN df.cols ELSE Append(df.cols, name),
     rows |-> [i \in 1..Len(df.rows) |->
                 [c \in Columns(df) \cup {name} |->
                     IF c = name THEN values[i] ELSE df.rows[i][c]]]]

\* the rows of right whose key equals that of the left row l, joined to l
RECURSIVE MatchRow(_, _, _, _)
MatchRow(l, rrows, on, outcols) ==
    IF rrows = <<>> THEN <<>>
    ELSE LET r == Head(rrows)
             rest == MatchRow(l, Tail(rrows), on, outcols)
         IN IF r[on] = l[on]
            THEN <<[c \in outcols |-> IF c \in DOMAIN l THEN l[c] ELSE r[c]]>> \o rest
            ELSE rest

RECURSIVE MergeRows(_, _, _, _)
MergeRows(lrows, rrows, on, outcols) ==
    IF lrows = <<>> THEN <<>>
    ELSE MatchRow(Head(lrows), rrows, on, outcols)
         \o MergeRows(Tail(lrows), rrows, on, outcols)

\* a left row with no match on the right, its right-hand columns missing
RECURSIVE LeftRows(_, _, _, _)
LeftRows(lrows, rrows, on, outcols) ==
    IF lrows = <<>> THEN <<>>
    ELSE LET l == Head(lrows)
             m == MatchRow(l, rrows, on, outcols)
         IN (IF m = <<>>
             THEN <<[c \in outcols |-> IF c \in DOMAIN l THEN l[c] ELSE NaN]>>
             ELSE m)
            \o LeftRows(Tail(lrows), rrows, on, outcols)

\* each left row joined to the first right row with its key only, as after
\* right.drop_duplicates(on)
RECURSIVE FirstMatchRows(_, _, _, _)
FirstMatchRows(lrows, rrows, on, outcols) ==
    IF lrows = <<>> THEN <<>>
    ELSE LET m == MatchRow(Head(lrows), rrows, on, outcols)
         IN (IF m = <<>> THEN <<>> ELSE <<Head(m)>>)
            \o FirstMatchRows(Tail(lrows), rrows, on, outcols)

MergedCols(left, right, on) ==
    left.cols \o SelectSeq(right.cols, LAMBDA c : c # on)

\* left.merge(right, on=on, how="left") keeps every left row
merge_left(left, right, on) ==
    [cols |-> MergedCols(left, right, on),
     rows |-> LeftRows(left.rows, right.rows, on, Range(MergedCols(left, right, on)))]

merge_first_match(left, right, on) ==
    [cols |-> MergedCols(left, right, on),
     rows |-> FirstMatchRows(left.rows, right.rows, on,
                             Range(MergedCols(left, right, on)))]

\* left.merge(right, on=on, how="inner"): one row per pair of a left row and
\* a right row with the same key, in the order of the left keys
merge(left, right, on) ==
    [cols |-> MergedCols(left, right, on),
     rows |-> MergeRows(left.rows, right.rows, on, Range(MergedCols(left, right, on)))]

----------------------------------------------------------------------------
(* Files and what Streamlit shows *)

\* pd.read_excel / pd.read_csv: the table of a readable file, else an exception
read_file(file) ==
    IF file.state = "ok"
    THEN [ok |-> TRUE, df |-> file.df, exc |-> ""]
    ELSE [ok |-> FALSE, df |-> EmptyDF,
          exc |-> IF file.state = "missing" THEN "FileNotFoundError" ELSE "ValueError"]

st_error(text)       == [fn |-> "error", text |-> text, list |-> <<>>]
st_write(text, list) == [fn |-> "write", text |-> text, list |-> list]

\* the three ways a call ends
ReturnTable(df) == [kind |-> "table", df |-> df, exc |-> ""]
ReturnNone      == [kind |-> "None", df |-> EmptyDF, exc |-> ""]
Raise(exc)      == [kind |-> "raise", df |-> EmptyDF, exc |-> exc]

----------------------------------------------------------------------------
(* utils/prep.py: filtered *)

pathology_cols == <<DonorID, AT8, Abeta, pTDP43, aSyn, NeuN, Iba1, GFAP>>

meta_cols == <<DonorID, CognitiveStatus, ADNC>>

\* [c for c in pathology_cols if c not in df_pathology.columns]
missing_cols(df) == SelectSeq(pathology_cols, LAMBDA c : c \notin Columns(df))

\* [c for c in meta_cols if c not in df_meta.columns]
missing_meta(df_meta) == SelectSeq(meta_cols, LAMBDA c : c \notin Columns(df_meta))

\* a report that lists the required columns instead of the missing ones
report_all_required(missing, df) ==
    << st_error("Missing metadata columns:"),
       st_write("", meta_cols),
       st_write("Available metadata columns:", df.cols) >>

report_missing_pathology(missing, df) ==
    << st_error("Missing pathology columns:"),
       st_write("", missing),
       st_write("Available columns:", df.cols) >>

report_missing_metadata(missing, df) ==
    << st_error("Missing metadata columns:"),
       st_write("", missing),
       st_write("Available metadata columns:", df.cols) >>

\* the rule without .str.lower()
DementiaFlagCaseSensitive(cell) ==
    LET x == Strip(AsStr(cell))
    IN Bool(In(T_dementia, x) /\ ~In(T_no_dementia, x))

\* .astype(str).str.strip().str.lower().apply(
\*      lambda x: ("dementia" in x) and ("no dementia" not in x))
DementiaFlag(cell) ==
    LET x == Lower(Strip(AsStr(cell)))
    IN Bool(In(T_dementia, x) /\ ~In(T_no_dementia, x))

\* a map whose dict has no entry for False
DementiaLabelTrueOnly(flag) ==
    IF flag = Bool(TRUE) THEN Str(T_Dementia) ELSE NaN

\* .map({True: "Dementia", False: "No dementia"}): no entry gives NaN
DementiaLabel(flag) ==
    IF flag = Bool(TRUE) THEN Str(T_Dementia)
    ELSE IF flag = Bool(FALSE) THEN Str(T_No_dementia)
    ELSE NaN

\* for col in pathology_cols[1:]: df[col] = pd.to_numeric(df[col], errors="coerce")
CoerceMarkers(df) ==
    [cols |-> df.cols,
     rows |-> [i \in 1..Len(df.rows) |->
                 [c \in Columns(df) |->
                     IF c \in Range(Tail(pathology_cols))
                     THEN to_numeric(df.rows[i][c])
                     ELSE df.rows[i][c]]]]

\* filtered with its two presence checks in the other order: the metadata
\* columns are looked at first
filtered_metadata_first(df, file) ==
    LET rd == read_file(file) IN
    IF ~rd.ok THEN [ret |-> Raise(rd.exc), st |-> <<>>]
    ELSE IF missing_meta(rd.df) # <<>>
    THEN [ret |-> ReturnNone, st |-> report_missing_metadata(missing_meta(rd.df), rd.df)]
    ELSE IF missing_cols(df) # <<>>
    THEN [ret |-> ReturnNone, st |-> report_missing_pathology(missing_cols(df), df)]
    ELSE
    LET df_meta   == Project(rd.df, meta_cols)
        df_meta_d == WithColumn(df_meta, Dementia,
                        [i \in 1..Len(df_meta.rows) |->
                            DementiaFlag(df_meta.rows[i][CognitiveStatus])])
        df_meta_s == WithColumn(df_meta_d, Dementia_status,
                        [i \in 1..Len(df_meta_d.rows) |->
                            DementiaLabel(df_meta_d.rows[i][Dementia])])
    IN [ret |-> ReturnTable(CoerceMarkers(
                    merge(Project(df, pathology_cols), df_meta_s, DonorID))),
        st |-> <<>>]

\* filtered(df_pathology), reading the metadata from file: what it returns
\* (or raises) and what it shows through st
filtered(df, file) ==
    LET rd == read_file(file) IN
    IF ~rd.ok THEN [ret |-> Raise(rd.exc), st |-> <<>>]
    ELSE IF missing_cols(df) # <<>>
    THEN [ret |-> ReturnNone, st |-> report_missing_pathology(missing_cols(df), df)]
    ELSE IF missing_meta(rd.df) # <<>>
    THEN [ret |-> ReturnNone, st |-> report_missing_metadata(missing_meta(rd.df), rd.df)]
    ELSE
    LET df_patho  == Project(df, pathology_cols)
        df_meta   == Project(rd.df, meta_cols)
        df_meta_d == WithColumn(df_meta, Dementia,
                        [i \in 1..Len(df_meta.rows) |->
                            DementiaFlag(df_meta.rows[i][CognitiveStatus])])
        df_meta_s == WithColumn(df_meta_d, Dementia_status,
                        [i \in 1..Len(df_meta_d.rows) |->
                            DementiaLabel(df_meta_d.rows[i][Dementia])])
        df_merged == merge(df_patho, df_meta_s, DonorID)
    IN [ret |-> ReturnTable(CoerceMarkers(df_merged)), st |-> <<>>]

\* df_pathology.set_index("Donor ID", inplace=True) would take the column
\* out of the caller's table
pathology_indexed_in_place(df, file) ==
    IF read_file(file).ok /\ missing_cols(df) = <<>>
    THEN Project(df, SelectSeq(df.cols, LAMBDA c : c # DonorID))
    ELSE df

\* df_pathology[col] = pd.to_numeric(df_pathology[col], errors="coerce")
\* would coerce the markers of the caller's table
pathology_coerced_in_place(df, file) ==
    IF read_file(file).ok /\ missing_cols(df) = <<>> /\ missing_meta(read_file(file).df) = <<>>
    THEN CoerceMarkers(df)
    ELSE df

\* the caller's table after filtered(df): filtered works on
\* df_pathology[pathology_cols].copy() and on the merge result, and assigns
\* nothing to the caller's table
pathology_after_call(df, file) == df

----------------------------------------------------------------------------
(* The inputs: bounded families of pathology tables, metadata tables, files *)

MaxRows     == 2    \* rows of a table given to filtered directly
MaxCalls    == 2    \* calls of filtered on the same inputs
MaxPageRows == 1    \* rows of a table in a file the page reads

DonorIDs == {Str(<<"D", "1">>), Str(<<"D", "2">>), Str(<<"D", "3">>)}

\* what a marker cell may hold: a number, the sentinel text, a numeral as
\* text, nothing, a malformed numeral
MarkerCells == <<Num(12), Str(T_Unavailable), Str(T_31), NaN, Str(T_3x1)>>

\* cognitive status and ADNC of a donor
CognitiveProfiles ==
    << [status |-> Str(T_Dementia),           adnc |-> Str(T_High)],
       [status |-> Str(T_No_dementia),        adnc |-> Str(T_Low)],
       [status |-> Str(T_Mild_Dementia),      adnc |-> Str(T_Intermediate)],
       [status |-> Str(T_DEMENTIA_pad),       adnc |-> Str(T_High)],
       [status |-> Str(T_Cognitively_normal), adnc |-> Str(T_Not_AD)],
       [status |-> NaN,                       adnc |-> Str(T_Low)],
       [status |-> Str(T_compound),           adnc |-> Str(T_Intermediate)],
       [status |-> Str(T_MCI),                adnc |-> NaN],
       [status |-> Str(T_No__dementia),       adnc |-> Str(T_Not_AD)] >>

\* the cells of the APOE Genotype column
APOECells == <<NaN, Str(T_3_4), Str(T_3_3)>>

IndexOf(seq, x) == CHOOSE i \in 1..Len(seq) : seq[i] = x

\* a pathology row: the marker cells rotate through MarkerCells with p
PathologyRow(id, p, cols) ==
    [c \in Range(cols) |->
        IF c = DonorID THEN id
        ELSE IF c \in Range(pathology_cols)
        THEN MarkerCells[((p + IndexOf(pathology_cols, c)) % Len(MarkerCells)) + 1]
        ELSE Str(<<"L", "2">>)]

MetaRow(id, q, cols) ==
    LET prof == CognitiveProfiles[(q % Len(CognitiveProfiles)) + 1]
    IN [c \in Range(cols) |->
           IF c = DonorID THEN id
           ELSE IF c = CognitiveStatus THEN prof.status
           ELSE IF c = ADNC THEN prof.adnc
           ELSE IF c = Sex THEN (IF q % 2 = 0 THEN Str(T_Female) ELSE Str(T_Male))
           ELSE IF c = AgeAtDeath THEN Num(78 + q)
           ELSE IF c = APOEGenotype THEN APOECells[(q % Len(APOECells)) + 1]
           ELSE IF q % 2 = 0 THEN Num(1200) ELSE Str(T_Unavailable)]

IdSeqs(n) == UNION {[1..m -> DonorIDs] : m \in 0..n}

PathologyTable(cols, ids, p) ==
    [cols |-> cols,
     rows |-> [i \in 1..Len(ids) |-> PathologyRow(ids[i], p + i, cols)]]

MetaTable(cols, ids, q) ==
    [cols |-> cols,
     rows |-> [i \in 1..Len(ids) |-> MetaRow(ids[i], q + i, cols)]]

AllMetaCols == <<DonorID, CognitiveStatus, ADNC, FreshBrainWeight>>

\* the offsets into a list of profiles: every second one, so that the rows
\* of the tables of two rows run through the whole list
Offsets(profiles) == {q \in 0..(Len(profiles) - 1) : q % 2 = 0}

\* tables with every required column, rows varied
PathologyTablesByRows(n) ==
    {PathologyTable(pathology_cols, ids, p) :
        ids \in IdSeqs(n), p \in Offsets(MarkerCells)}

MetaTablesByRows(n) ==
    {MetaTable(AllMetaCols, ids, q) :
        ids \in IdSeqs(n), q \in Offsets(CognitiveProfiles)}

\* tables with some required columns absent and one column more, rows fixed
PathologyTablesByCols ==
    {PathologyTable(SelectSeq(pathology_cols \o <<Layer>>, LAMBDA c : c \notin D),
                    <<Str(<<"D", "1">>), Str(<<"D", "2">>)>>, 0) :
        D \in SUBSET {DonorID, AT8, GFAP}}
    \cup {EmptyDF}

MetaTablesByCols ==
    {MetaTable(SelectSeq(AllMetaCols, LAMBDA c : c \notin D),
               <<Str(<<"D", "1">>), Str(<<"D", "3">>)>>, 0) :
        D \in SUBSET Range(meta_cols)}
    \cup {EmptyDF}

\* the donor metadata workbook as the application reads it: the columns
\* the overview charts and filtered use, and Fresh Brain Weight
DonorCols == <<DonorID, Sex, AgeAtDeath, APOEGenotype, CognitiveStatus, ADNC,
               FreshBrainWeight>>

DonorTablesByRows(n) ==
    {MetaTable(DonorCols, ids, q) : ids \in IdSeqs(n), q \in {0, 1, 2, 5}}

DonorTablesByCols ==
    {MetaTable(SelectSeq(DonorCols, LAMBDA c : c \notin D),
               <<Str(<<"D", "1">>), Str(<<"D", "3">>)>>, 0) :
        D \in SUBSET {Sex, APOEGenotype, CognitiveStatus}}
    \cup {EmptyDF}

\* the pathology file as the application reads it
MTGTablesByRows(n) ==
    {PathologyTable(pathology_cols, ids, 0) : ids \in IdSeqs(n)}

File(t) == [state |-> "ok", df |-> t]

UnreadableFiles ==
    {[state |-> "missing", df |-> EmptyDF], [state |-> "malformed", df |-> EmptyDF]}

----------------------------------------------------------------------------
(* utils/io.py: load_csv *)

\* a loader that has not been called in this run
NotLoaded == [df |-> EmptyDF, st |-> <<>>, exc |-> ""]

\* try: return pd.read_csv(path)
\* except Exception: st.error(...); return pd.DataFrame()
load_csv(file) ==
    LET rd == read_file(file)
    IN IF rd.ok THEN [df |-> rd.df, st |-> <<>>, exc |-> ""]
       ELSE [df |-> EmptyDF, st |-> <<st_error("Failed to load data")>>, exc |-> ""]

----------------------------------------------------------------------------
(* utils/prep.py: clean_data and utils/io.py: load_data *)

\* clean_data without the assignment: the column stays as read
clean_data_skip(df) == df

\* if "Fresh Brain Weight" in df.columns:
\*     df["Fresh Brain Weight"] = pd.to_numeric(..., errors="coerce")
\* return df
clean_data(df) ==
    IF FreshBrainWeight \in Columns(df)
    THEN WithColumn(df, FreshBrainWeight,
                    [i \in 1..Len(df.rows) |-> to_numeric(df.rows[i][FreshBrainWeight])])
    ELSE df

\* load_data without its try/except: the exception of the read leaves it
load_data_unguarded(file) ==
    LET rd == read_file(file)
    IN IF rd.ok THEN [df |-> clean_data(rd.df), st |-> <<>>, exc |-> ""]
       ELSE [df |-> EmptyDF, st |-> <<>>, exc |-> rd.exc]

\* try: df = pd.read_excel(path); df = clean_data(df); return df
\* except Exception: st.error(...); return pd.DataFrame()
load_data(file) ==
    LET rd == read_file(file)
    IN IF rd.ok THEN [df |-> clean_data(rd.df), st |-> <<>>, exc |-> ""]
       ELSE [df |-> EmptyDF, st |-> <<st_error("Failed to load data")>>, exc |-> ""]

----------------------------------------------------------------------------
(* utils/visualizations.py: the renderers of the pathology page.  A renderer
   is given what filtered returned; it yields the set of ways it can end:
   what it shows, and the exception it raises ("" when it returns). *)

Shown(items) == [st |-> items, exc |-> ""]
Raised(exc)  == [st |-> <<>>, exc |-> exc]
Chart(name)  == [fn |-> "chart", text |-> name, list |-> <<>>]

\* adnc_order = ["Not AD", "Low", "Intermediate", "High"], the sort= of the
\* ADNC axis (of the ADNC legend in neun_vs_at8)
adnc_order == <<Str(T_Not_AD), Str(T_Low), Str(T_Intermediate), Str(T_High)>>

\* the values of a sequence, each once, in the order of first occurrence
RECURSIVE Distinct(_)
Distinct(s) ==
    IF s = <<>> THEN <<>>
    ELSE LET d == Distinct(SubSeq(s, 1, Len(s) - 1))
         IN IF s[Len(s)] \in Range(d) THEN d ELSE Append(d, s[Len(s)])

\* the categories of a channel without sort=: in the order of the rows
vega_domain_data_order(values, sort) == Distinct(values)

\* Vega-Lite, sort=[...] on a discrete channel: the values listed come in
\* the order of the list, any other value after them in the order of the rows
vega_domain(values, sort) ==
    SelectSeq(sort, LAMBDA v : v \in Range(values))
    \o SelectSeq(Distinct(values), LAMBDA v : v \notin Range(sort))

\* a chart whose x axis (or legend) shows the ADNC categories of df, with
\* sort=adnc_order: the chart and the categories in the order displayed
ADNCChart(name, df) ==
    [fn |-> "chart", text |-> name,
     list |-> IF ADNC \in Columns(df)
              THEN vega_domain([i \in 1..Len(df.rows) |-> df.rows[i][ADNC]], adnc_order)
              ELSE <<>>]

\* plot_df.dropna(subset=[abeta_col, ADNC]): the rows holding both
dropna_abeta(df) ==
    [cols |-> df.cols,
     rows |-> SelectSeq(df.rows, LAMBDA r : r[Abeta].k # "nan" /\ r[ADNC].k # "nan")]

\* df.columns on None raises AttributeError; without the required columns
\* the renderer reports and returns; else it draws
at8_scatter_by_dementia(ret) ==
    IF ret.kind = "None" THEN {Raised("AttributeError")}
    ELSE IF ~({Dementia, AT8} \subseteq Columns(ret.df))
    THEN {Shown(<<st_error("Missing required columns"), st_write("", ret.df.cols)>>)}
    ELSE {Shown(<<Chart("at8_scatter_by_dementia")>>)}

\* no check of its own: alt.Chart(df) is built and drawn; what the chart
\* library does with None instead of a table is not fixed by this code
at8_vs_adnc(ret) ==
    IF ret.kind = "None"
    THEN {Raised("Exception"), Shown(<<Chart("at8_vs_adnc")>>)}
    ELSE {Shown(<<ADNCChart("at8_vs_adnc", ret.df)>>)}

abeta_vs_adnc(ret) ==
    IF ret.kind = "None" THEN {Raised("AttributeError")}
    ELSE LET required == <<DonorID, ADNC, Abeta>>
             missing == SelectSeq(required, LAMBDA c : c \notin Columns(ret.df))
         IN IF missing # <<>>
            THEN {Shown(<<st_error("Missing columns for plot"),
                          st_write("Available columns:", ret.df.cols)>>)}
            ELSE {Shown(<<ADNCChart("abeta_vs_adnc",
                                    dropna_abeta(Project(ret.df, required)))>>)}

correlation_heatmap_pathology(ret) ==
    IF ret.kind = "None" THEN {Raised("AttributeError")}
    ELSE LET cols == SelectSeq(<<AT8, Abeta, NeuN, Iba1, GFAP, pTDP43, aSyn>>,
                               LAMBDA c : c \in Columns(ret.df))
         IN IF Len(cols) < 3
            THEN {Shown(<<st_error("Not enough marker columns found to compute correlations."),
                          st_write("Available columns:", ret.df.cols)>>)}
            ELSE {Shown(<<Chart("correlation_heatmap_pathology"),
                          [fn |-> "caption", text |-> "Computed on n donors", list |-> <<>>]>>)}

neun_vs_adnc(ret) ==
    IF ret.kind = "None"
    THEN {Raised("Exception"), Shown(<<Chart("neun_vs_adnc")>>)}
    ELSE {Shown(<<ADNCChart("neun_vs_adnc", ret.df)>>)}

neun_vs_at8(ret) ==
    IF ret.kind = "None"
    THEN {Raised("Exception"), Shown(<<Chart("neun_vs_at8")>>)}
    ELSE {Shown(<<ADNCChart("neun_vs_at8", ret.df)>>)}

----------------------------------------------------------------------------
(* utils/visualizations.py: the renderers of the overview page, and
   at8_by_dementia_barplot *)

\* if df is None: st.error, return; if "Sex" not in df.columns: st.error,
\* st.write(columns), return; else the pie chart
gender_donutchart(ret) ==
    IF ret.kind = "None" THEN {Shown(<<st_error("df is None in gender_donutchart")>>)}
    ELSE IF Sex \notin Columns(ret.df)
    THEN {Shown(<<st_error("Column 'Sex' not found in dataframe"),
                  st_write("Available columns:", ret.df.cols)>>)}
    ELSE {Shown(<<Chart("gender_donutchart")>>)}

\* if "Age at Death" not in df.columns: st.error, return; else the bar chart
age_barchart(ret) ==
    IF ret.kind = "None" THEN {Raised("AttributeError")}
    ELSE IF AgeAtDeath \notin Columns(ret.df)
    THEN {Shown(<<st_error("Column 'Age at Death' not found")>>)}
    ELSE {Shown(<<Chart("age_barchart")>>)}

\* no check of its own: alt.Chart(df) with typed encodings is built and drawn
apoe_genotype(ret) ==
    IF ret.kind = "None"
    THEN {Raised("Exception"), Shown(<<Chart("apoe_genotype")>>)}
    ELSE {Shown(<<Chart("apoe_genotype")>>)}

\* total = len(df); counts = df["Cognitive Status"].value_counts();
\* counts.get("Dementia", 0) / total * 100: no check, so a missing column is
\* a KeyError and a table without rows a division by zero; else two metrics
cognitive_status(ret) ==
    IF ret.kind = "None" THEN {Raised("TypeError")}
    ELSE IF CognitiveStatus \notin Columns(ret.df) THEN {Raised("KeyError")}
    ELSE IF Len(ret.df.rows) = 0 THEN {Raised("ZeroDivisionError")}
    ELSE {Shown(<<[fn |-> "metric", text |-> "Dementia", list |-> <<>>],
                  [fn |-> "metric", text |-> "No Dementia", list |-> <<>>]>>)}

\* no check of its own
adnc_distribution(ret) ==
    IF ret.kind = "None"
    THEN {Raised("Exception"), Shown(<<Chart("adnc_distribution")>>)}
    ELSE {Shown(<<ADNCChart("adnc_distribution", ret.df)>>)}

\* df = df.copy(); df["APOE4+"] = df["APOE Genotype"].str.contains("4"):
\* no check, so a missing column is a KeyError, and .str on a column that
\* holds rows but no text (all missing: a float column) an AttributeError
apoe4_by_adnc(ret) ==
    IF ret.kind = "None" THEN {Raised("AttributeError")}
    ELSE IF APOEGenotype \notin Columns(ret.df) THEN {Raised("KeyError")}
    ELSE IF /\ Len(ret.df.rows) > 0
            /\ \A i \in 1..Len(ret.df.rows) : ret.df.rows[i][APOEGenotype].k # "str"
    THEN {Raised("AttributeError")}
    ELSE {Shown(<<ADNCChart("apoe4_by_adnc", ret.df)>>)}

\* .fillna("").str.contains("Dementia") of one cell: a missing status is the
\* empty text; the pattern is matched as written, capital D included; a
\* cell that is no text gives a missing value
DementiaPlus(cell) ==
    IF cell.k = "nan" THEN Bool(FALSE)
    ELSE IF cell.k = "str" THEN Bool(In(T_Dementia, cell.v))
    ELSE NaN

\* the chart of dementia_by_adnc: the ADNC axis and, row by row, the
\* Dementia+ value whose mean the bars show
DementiaChart(df) ==
    [data |-> [i \in 1..Len(df.rows) |-> DementiaPlus(df.rows[i][CognitiveStatus])]]
    @@ ADNCChart("dementia_by_adnc", df)

\* df = df.copy(); df["Dementia+"] = df["Cognitive Status"].fillna("")
\* .str.contains("Dementia"): no check, so a missing column is a KeyError
dementia_by_adnc(ret) ==
    IF ret.kind = "None" THEN {Raised("AttributeError")}
    ELSE IF CognitiveStatus \notin Columns(ret.df) THEN {Raised("KeyError")}
    ELSE {Shown(<<DementiaChart(ret.df)>>)}

\* required_cols = [AT8, "Dementia_status"]; when not all are columns:
\* st.error, st.write(columns), return; else the bar plot
at8_by_dementia_barplot(ret) ==
    IF ret.kind = "None" THEN {Raised("AttributeError")}
    ELSE IF ~({AT8, Dementia_status} \subseteq Columns(ret.df))
    THEN {Shown(<<st_error("Required columns not found."),
                  st_write("Available columns:", ret.df.cols)>>)}
    ELSE {Shown(<<Chart("at8_by_dementia_barplot")>>)}

----------------------------------------------------------------------------
(* A caller of filtered: the same table and the same metadata file, one
   call after another *)

Init ==
    /\ \/ /\ df_pathology \in PathologyTablesByRows(MaxRows)
          /\ metaFile \in {File(t) : t \in MetaTablesByRows(MaxRows)}
       \/ /\ df_pathology \in PathologyTablesByCols
          /\ metaFile \in {File(t) : t \in MetaTablesByCols} \cup UnreadableFiles
    /\ calls = <<>>
    /\ csvFile = File(EmptyDF)
    /\ pc = "idle"
    /\ df_filtered = ReturnNone
    /\ page = <<>>
    /\ selection = ""
    /\ donor_df = NotLoaded
    /\ mtg_df = NotLoaded
    /\ rendered = <<>>
    /\ runs = <<>>
    /\ rtable = ReturnNone
    /\ rlog = <<>>

\* df = filtered(df_pathology)
CallFiltered ==
    /\ pc = "idle"
    /\ Len(calls) < MaxCalls
    /\ calls' = Append(calls, filtered(df_pathology, metaFile))
    /\ df_pathology' = pathology_after_call(df_pathology, metaFile)
    /\ UNCHANGED <<metaFile, csvFile, pc, df_filtered, page>>
    /\ UNCHANGED <<appVars, renderVars>>

Next == CallFiltered

Spec == Init /\ [][Next]_vars

----------------------------------------------------------------------------
(* sections/brain_pathology.py: one render of app(df) *)

InitPage ==
    /\ csvFile \in {File(t) : t \in PathologyTablesByRows(MaxPageRows)
                                    \cup PathologyTablesByCols}
                   \cup UnreadableFiles
    /\ metaFile \in {File(t) : t \in MetaTablesByRows(MaxPageRows)
                                     \cup MetaTablesByCols}
                    \cup UnreadableFiles
    /\ df_pathology = EmptyDF
    /\ calls = <<>>
    /\ pc = "start"
    /\ df_filtered = ReturnNone
    /\ page = <<>>
    /\ selection = ""
    /\ donor_df = NotLoaded
    /\ mtg_df = NotLoaded
    /\ rendered = <<>>
    /\ runs = <<>>
    /\ rtable = ReturnNone
    /\ rlog = <<>>

\* df = load_csv(); df_filtered = filtered(df); then the title and the
\* texts up to the first chart
PageLoad ==
    /\ pc = "start"
    /\ LET loaded == load_csv(csvFile)
           res == filtered(loaded.df, metaFile)
       IN /\ df_pathology' = pathology_after_call(loaded.df, metaFile)
          /\ df_filtered' = res.ret
          /\ IF res.ret.kind = "raise"
             THEN /\ pc' = "raised"
                  /\ page' = page \o loaded.st
             ELSE /\ pc' = "at8_scatter_by_dementia"
                  /\ page' = page \o loaded.st \o res.st
    /\ UNCHANGED <<metaFile, calls, csvFile>>
    /\ UNCHANGED <<appVars, renderVars>>

\* one renderer call of the page, then the texts that follow it
Render(at, outcomes, then) ==
    /\ pc = at
    /\ \E o \in outcomes :
          /\ page' = page \o o.st
          /\ pc' = IF o.exc # "" THEN "raised" ELSE then
    /\ UNCHANGED <<df_pathology, metaFile, calls, csvFile, df_filtered>>
    /\ UNCHANGED <<appVars, renderVars>>

PageAT8Scatter ==
    Render("at8_scatter_by_dementia", at8_scatter_by_dementia(df_filtered), "at8_vs_adnc")
PageAT8vsADNC ==
    Render("at8_vs_adnc", at8_vs_adnc(df_filtered), "abeta_vs_adnc")
PageAbeta ==
    Render("abeta_vs_adnc", abeta_vs_adnc(df_filtered), "correlation_heatmap_pathology")
PageHeatmap ==
    Render("correlation_heatmap_pathology", correlation_heatmap_pathology(df_filtered),
           "neun_vs_adnc")
PageNeunADNC ==
    Render("neun_vs_adnc", neun_vs_adnc(df_filtered), "neun_vs_at8")
PageNeunAT8 ==
    Render("neun_vs_at8", neun_vs_at8(df_filtered), "closing")

\* the closing header and texts
PageClosing ==
    /\ pc = "closing"
    /\ pc' = "done"
    /\ page' = Append(page, [fn |-> "markdown", text |-> "closing", list |-> <<>>])
    /\ UNCHANGED <<df_pathology, metaFile, calls, csvFile, df_filtered>>
    /\ UNCHANGED <<appVars, renderVars>>

NextPage ==
    \/ PageLoad
    \/ PageAT8Scatter
    \/ PageAT8vsADNC
    \/ PageAbeta
    \/ PageHeatmap
    \/ PageNeunADNC
    \/ PageNeunAT8
    \/ PageClosing

SpecPage == InitPage /\ [][NextPage]_vars

----------------------------------------------------------------------------
(* app.py: a session of the application.  Streamlit runs the script from
   the top for every menu selection and every reload; nothing of a run but
   the files outlives it. *)

MaxRuns == 2    \* runs of the script in one session

DashboardOverview == "Dashboard Overview"
BrainPathology    == "Brain pathology (MTG)"

\* PAGES = {"Dashboard Overview": overview, "Brain pathology (MTG)": brain_pathology}
PAGES ==
    [s \in {DashboardOverview, BrainPathology} |->
        IF s = DashboardOverview THEN "overview" ELSE "brain_pathology"]

\* a dispatch that hands each page the other page's table
dispatch_swapped_tables(sel, donor, mtg) ==
    IF sel = DashboardOverview THEN <<[module |-> PAGES[sel], df |-> mtg]>>
    ELSE IF sel = BrainPathology THEN <<[module |-> PAGES[sel], df |-> donor]>>
    ELSE <<>>

\* page = PAGES[selection]
\* if selection == "Dashboard Overview": page.app(donor_df)
\* elif selection == "Brain pathology (MTG)": page.app(mtg_df)
\* the page.app calls made, in order
dispatch(sel, donor, mtg) ==
    IF sel = DashboardOverview THEN <<[module |-> PAGES[sel], df |-> donor]>>
    ELSE IF sel = BrainPathology THEN <<[module |-> PAGES[sel], df |-> mtg]>>
    ELSE <<>>

\* a loader that keeps the rows of the run before and adds the rows read
donor_accumulated(earlier, file) ==
    LET now == load_data(file)
    IN IF earlier = <<>> THEN now
       ELSE [now EXCEPT !.df.rows = earlier[Len(earlier)].donor_df.df.rows \o @]

\* donor_df = load_data(): module level, so every run reads the file anew,
\* whatever the earlier runs computed
donor_at_run(earlier, file) == load_data(file)

InitApp ==
    /\ metaFile \in {File(t) : t \in DonorTablesByRows(MaxPageRows)
                                     \cup DonorTablesByCols}
                    \cup UnreadableFiles
    /\ csvFile \in {File(t) : t \in MTGTablesByRows(MaxPageRows)
                                    \cup PathologyTablesByCols}
                   \cup UnreadableFiles
    /\ selection \in DOMAIN PAGES
    /\ pc = "app_start"
    /\ df_pathology = EmptyDF
    /\ calls = <<>>
    /\ df_filtered = ReturnNone
    /\ page = <<>>
    /\ donor_df = NotLoaded
    /\ mtg_df = NotLoaded
    /\ rendered = <<>>
    /\ runs = <<>>
    /\ rtable = ReturnNone
    /\ rlog = <<>>

\* donor_df = load_data(); mtg_df = load_csv()
AppLoad ==
    /\ pc = "app_start"
    /\ LET donor == donor_at_run(runs, metaFile)
           mtg == load_csv(csvFile)
       IN /\ donor_df' = donor
          /\ mtg_df' = mtg
          /\ page' = page \o donor.st \o mtg.st
          /\ pc' = IF donor.exc # "" \/ mtg.exc # "" THEN "raised" ELSE "dispatch"
    /\ UNCHANGED <<df_pathology, metaFile, calls, csvFile, df_filtered,
                   selection, rendered, runs, renderVars>>

\* the sidebar and the dispatch on selection
AppDispatch ==
    /\ pc = "dispatch"
    /\ LET called == dispatch(selection, donor_df.df, mtg_df.df)
       IN /\ rendered' = called
          /\ pc' = IF called = <<>> THEN "done"
                   ELSE IF called[1].module = "overview" THEN "gender_donutchart"
                   ELSE "start"
    /\ UNCHANGED <<df_pathology, metaFile, calls, csvFile, df_filtered, page,
                   selection, donor_df, mtg_df, runs, renderVars>>

\* sections/overview.py: app(df), the df it was called with
overview_df == IF rendered = <<>> THEN ReturnNone ELSE ReturnTable(rendered[1].df)

OvGender ==
    Render("gender_donutchart", gender_donutchart(overview_df), "age_barchart")
OvAge ==
    Render("age_barchart", age_barchart(overview_df), "apoe_genotype")
OvApoe ==
    Render("apoe_genotype", apoe_genotype(overview_df), "cognitive_status")
OvCognitive ==
    Render("cognitive_status", cognitive_status(overview_df), "dementia_by_adnc")
OvDementiaByADNC ==
    Render("dementia_by_adnc", dementia_by_adnc(overview_df), "adnc_distribution")
OvADNC ==
    Render("adnc_distribution", adnc_distribution(overview_df), "apoe4_by_adnc")
OvApoe4 ==
    Render("apoe4_by_adnc", apoe4_by_adnc(overview_df), "done")

\* what a run leaves to look back on
RunRecord ==
    [selection |-> selection, donor_df |-> donor_df, mtg_df |-> mtg_df,
     df_filtered |-> df_filtered, rendered |-> rendered, pc |-> pc, page |-> page]

\* the user selects a menu entry or reloads the page: the script runs again
\* from the top
Rerun ==
    /\ pc \in {"done", "raised"}
    /\ Len(runs) + 1 < MaxRuns
    /\ runs' = Append(runs, RunRecord)
    /\ selection' \in DOMAIN PAGES
    /\ pc' = "app_start"
    /\ donor_df' = NotLoaded
    /\ mtg_df' = NotLoaded
    /\ rendered' = <<>>
    /\ df_filtered' = ReturnNone
    /\ df_pathology' = EmptyDF
    /\ page' = <<>>
    /\ UNCHANGED <<metaFile, calls, csvFile, renderVars>>

NextApp ==
    \/ AppLoad
    \/ AppDispatch
    \/ OvGender
    \/ OvAge
    \/ OvApoe
    \/ OvCognitive
    \/ OvDementiaByADNC
    \/ OvADNC
    \/ OvApoe4
    \/ PageLoad
    \/ PageAT8Scatter
    \/ PageAT8vsADNC
    \/ PageAbeta
    \/ PageHeatmap
    \/ PageNeunADNC
    \/ PageNeunAT8
    \/ PageClosing
    \/ Rerun

SpecApp == InitApp /\ [][NextApp]_vars

----------------------------------------------------------------------------
(* utils/visualizations.py: the chart renderers called on one table, in any
   order, any of them left out *)

MaxRenders == 2    \* renderer calls on the same table

RendererNames ==
    {"gender_donutchart", "age_barchart", "apoe_genotype", "cognitive_status",
     "adnc_distribution", "apoe4_by_adnc", "dementia_by_adnc",
     "at8_by_dementia_barplot", "at8_scatter_by_dementia", "at8_vs_adnc",
     "abeta_vs_adnc", "correlation_heatmap_pathology", "neun_vs_adnc",
     "neun_vs_at8"}

\* the renderer of that name, called on ret
Renderer(name, ret) ==
    CASE name = "gender_donutchart"             -> gender_donutchart(ret)
      [] name = "age_barchart"                  -> age_barchart(ret)
      [] name = "apoe_genotype"                 -> apoe_genotype(ret)
      [] name = "cognitive_status"              -> cognitive_status(ret)
      [] name = "adnc_distribution"             -> adnc_distribution(ret)
      [] name = "apoe4_by_adnc"                 -> apoe4_by_adnc(ret)
      [] name = "dementia_by_adnc"              -> dementia_by_adnc(ret)
      [] name = "at8_by_dementia_barplot"       -> at8_by_dementia_barplot(ret)
      [] name = "at8_scatter_by_dementia"       -> at8_scatter_by_dementia(ret)
      [] name = "at8_vs_adnc"                   -> at8_vs_adnc(ret)
      [] name = "abeta_vs_adnc"                 -> abeta_vs_adnc(ret)
      [] name = "correlation_heatmap_pathology" -> correlation_heatmap_pathology(ret)
      [] name = "neun_vs_adnc"                  -> neun_vs_adnc(ret)
      [] name = "neun_vs_at8"                   -> neun_vs_at8(ret)

\* the renderers that assign a column, doing so without df = df.copy():
\* the column lands in the caller's table
renderer_input_in_place(name, ret) ==
    IF ret.kind # "table" THEN ret
    ELSE IF name = "apoe4_by_adnc" /\ APOEGenotype \in Columns(ret.df)
    THEN ReturnTable(WithColumn(ret.df, "APOE4+",
            [i \in 1..Len(ret.df.rows) |->
                Bool(In(<<"4">>, AsStr(ret.df.rows[i][APOEGenotype])))]))
    ELSE IF name = "dementia_by_adnc" /\ CognitiveStatus \in Columns(ret.df)
    THEN ReturnTable(WithColumn(ret.df, "Dementia+",
            [i \in 1..Len(ret.df.rows) |->
                DementiaPlus(ret.df.rows[i][CognitiveStatus])]))
    ELSE ret

\* the caller's table after a renderer returned or raised: the renderers
\* that assign a column (apoe4_by_adnc, dementia_by_adnc, age_barchart,
\* at8_scatter_by_dementia, abeta_vs_adnc) do it on df.copy(); the others
\* only read
renderer_input_after(name, ret) == ret

\* the tables the renderers are tried on: donor tables, pathology tables,
\* what filtered returns for them, and None
\* donor tables of three rows whose ADNC values are not in display order
UnorderedDonorTables ==
    {MetaTable(DonorCols, <<Str(<<"D", "1">>), Str(<<"D", "2">>), Str(<<"D", "3">>)>>, q) :
        q \in {2, 6}}

RenderTables ==
    LET donors == DonorTablesByRows(MaxPageRows) \cup DonorTablesByCols
        three  == PathologyTable(pathology_cols,
                     <<Str(<<"D", "3">>), Str(<<"D", "1">>), Str(<<"D", "2">>)>>, 0)
    IN {ReturnNone}
       \cup {ReturnTable(t) : t \in donors \cup PathologyTablesByCols
                                     \cup UnorderedDonorTables}
       \cup {r \in {filtered(p, File(m)).ret : p \in PathologyTablesByCols, m \in donors}
                    \cup {filtered(three, File(m)).ret : m \in UnorderedDonorTables} :
                r.kind = "table"}

InitRender ==
    /\ rtable \in RenderTables
    /\ rlog = <<>>
    /\ df_pathology = EmptyDF
    /\ metaFile = File(EmptyDF)
    /\ csvFile = File(EmptyDF)
    /\ calls = <<>>
    /\ pc = "idle"
    /\ df_filtered = ReturnNone
    /\ page = <<>>
    /\ selection = ""
    /\ donor_df = NotLoaded
    /\ mtg_df = NotLoaded
    /\ rendered = <<>>
    /\ runs = <<>>

\* one renderer is called on the table
CallRenderer ==
    /\ Len(rlog) < MaxRenders
    /\ \E name \in RendererNames :
          \E o \in Renderer(name, rtable) :
             /\ rlog' = Append(rlog, [name |-> name, out |-> o])
             /\ rtable' = renderer_input_after(name, rtable)
    /\ UNCHANGED <<df_pathology, metaFile, calls, csvFile, pc, df_filtered, page,
                   appVars>>

NextRender == CallRenderer

SpecRender == InitRender /\ [][NextRender]_vars

----------------------------------------------------------------------------
(* Properties of filtered *)

\* the Donor IDs of a table
IDs(df) == {df.rows[i][DonorID] : i \in 1..Len(df.rows)}

\* the number of rows of df with Donor ID id
CountID(df, id) == Cardinality({i \in 1..Len(df.rows) : df.rows[i][DonorID] = id})

\* the number of pairs of a row of left and a row of right that carry the
\* same Donor ID, the ID taken from S
RECURSIVE PairsOver(_, _, _)
PairsOver(S, left, right) ==
    IF S = {} THEN 0
    ELSE LET id == CHOOSE y \in S : TRUE
         IN CountID(left, id) * CountID(right, id) + PairsOver(S \ {id}, left, right)

\* the calls that returned a table
TableCalls == {i \in 1..Len(calls) : calls[i].ret.kind = "table"}

HasAll(df, cols) == Range(cols) \subseteq Columns(df)

\* both presence checks pass on the inputs
ChecksPass ==
    /\ metaFile.state = "ok"
    /\ HasAll(df_pathology, pathology_cols)
    /\ HasAll(metaFile.df, meta_cols)

SharedIDs == IDs(df_pathology) \cap IDs(metaFile.df)

\* needle occurs in hay at some position
Occurs(needle, hay) ==
    \E i \in 1..Len(hay) :
        /\ i + Len(needle) - 1 <= Len(hay)
        /\ \A j \in 1..Len(needle) : hay[i + j - 1] = needle[j]

\* C1: the Donor IDs of the table filtered returns are exactly those present
\* in both the pathology input and the metadata input.
C1_DonorIDsAreIntersection ==
    \A i \in TableCalls : IDs(calls[i].ret.df) = SharedIDs

C1_Witness ==
    /\ TableCalls # {}
    /\ SharedIDs # {}
    /\ IDs(df_pathology) \ IDs(metaFile.df) # {}
    /\ IDs(metaFile.df) \ IDs(df_pathology) # {}

\* C2 as stated: the number of rows of the returned table equals the number
\* of distinct Donor IDs present in both inputs, also when an ID is repeated.
C2_RowsEqualDistinctSharedIDs ==
    \A i \in TableCalls : Len(calls[i].ret.df.rows) = Cardinality(SharedIDs)

NoRepeatedID(df) == \A id \in IDs(df) : CountID(df, id) = 1

\* C2 amended: the returned table holds one row for every pair of a
\* pathology row and a metadata row with the same Donor ID; when no Donor ID
\* is repeated within an input, that is the number of distinct Donor IDs
\* present in both inputs.
C2_RowsArePairsOfSharedIDs ==
    \A i \in TableCalls :
        /\ Len(calls[i].ret.df.rows) =
              PairsOver(SharedIDs, df_pathology, metaFile.df)
        /\ (NoRepeatedID(df_pathology) /\ NoRepeatedID(metaFile.df))
              => Len(calls[i].ret.df.rows) = Cardinality(SharedIDs)

C2_Witness ==
    \E i \in TableCalls :
        /\ \E id \in SharedIDs : CountID(df_pathology, id) > 1
        /\ \E id \in SharedIDs : CountID(metaFile.df, id) > 1
        /\ Len(calls[i].ret.df.rows) > Cardinality(SharedIDs)

\* the flag the status text calls for: the trimmed, lower-cased text contains
\* "dementia" and not "no dementia"; a missing status has no such text
FlagOfStatus(cell) ==
    /\ cell.k = "str"
    /\ Occurs(T_dementia, Lower(Strip(cell.v)))
    /\ ~Occurs(T_no_dementia, Lower(Strip(cell.v)))

\* C3: in every returned row the Dementia flag is true exactly when the
\* trimmed, lower-cased status text contains "dementia" and not "no dementia";
\* "Mild Dementia", "Dementia", "  DEMENTIA  " give true, "No dementia",
\* "Cognitively normal" and a missing status give false.
C3_DementiaFlagFollowsStatus ==
    \A i \in TableCalls :
        \A n \in 1..Len(calls[i].ret.df.rows) :
            LET r == calls[i].ret.df.rows[n] IN
            /\ r[Dementia] = Bool(FlagOfStatus(r[CognitiveStatus]))
            /\ r[CognitiveStatus] \in
                  {Str(T_Mild_Dementia), Str(T_Dementia), Str(T_DEMENTIA_pad)}
                  => r[Dementia] = Bool(TRUE)
            /\ r[CognitiveStatus] \in
                  {Str(T_No_dementia), Str(T_Cognitively_normal), NaN}
                  => r[Dementia] = Bool(FALSE)

C3_Witness ==
    \E i \in TableCalls :
        \E n, m \in 1..Len(calls[i].ret.df.rows) :
            LET r == calls[i].ret.df.rows[n]
                q == calls[i].ret.df.rows[m] IN
            /\ r[CognitiveStatus] = Str(T_DEMENTIA_pad)
            /\ r[Dementia] = Bool(TRUE)
            /\ q[CognitiveStatus] = Str(T_Cognitively_normal)
            /\ q[Dementia] = Bool(FALSE)

\* C4: in every returned row Dementia_status is "Dementia" when the flag is
\* true and "No dementia" when it is false, and is never anything else.
C4_StatusLabelFollowsFlag ==
    \A i \in TableCalls :
        \A n \in 1..Len(calls[i].ret.df.rows) :
            LET r == calls[i].ret.df.rows[n] IN
            /\ r[Dementia] = Bool(TRUE) => r[Dementia_status] = Str(T_Dementia)
            /\ r[Dementia] = Bool(FALSE) => r[Dementia_status] = Str(T_No_dementia)
            /\ r[Dementia_status] \in {Str(T_Dementia), Str(T_No_dementia)}

C4_Witness ==
    \E i \in TableCalls :
        \E n, m \in 1..Len(calls[i].ret.df.rows) :
            /\ calls[i].ret.df.rows[n][Dementia_status] = Str(T_Dementia)
            /\ calls[i].ret.df.rows[m][Dementia_status] = Str(T_No_dementia)

\* C5: when the pathology table lacks a required pathology column, filtered
\* returns None and reports exactly the required columns that are absent,
\* together with the columns present.
C5_MissingPathologyColumnsReported ==
    \A i \in 1..Len(calls) :
        ~HasAll(df_pathology, pathology_cols) =>
            /\ calls[i].ret = ReturnNone
            /\ Len(calls[i].st) = 3
            /\ calls[i].st[1] = st_error("Missing pathology columns:")
            /\ Range(calls[i].st[2].list) = Range(pathology_cols) \ Columns(df_pathology)
            /\ Len(calls[i].st[2].list) =
                  Cardinality(Range(pathology_cols) \ Columns(df_pathology))
            /\ calls[i].st[3].list = df_pathology.cols

\* C6: when the pathology columns are all present and the metadata table
\* lacks a required metadata column, filtered returns None and reports
\* exactly the metadata columns that are absent and those present.
C6_MissingMetadataColumnsReported ==
    \A i \in 1..Len(calls) :
        (/\ HasAll(df_pathology, pathology_cols)
         /\ metaFile.state = "ok"
         /\ ~HasAll(metaFile.df, meta_cols)) =>
            /\ calls[i].ret = ReturnNone
            /\ Len(calls[i].st) = 3
            /\ calls[i].st[1] = st_error("Missing metadata columns:")
            /\ Range(calls[i].st[2].list) = Range(meta_cols) \ Columns(metaFile.df)
            /\ Len(calls[i].st[2].list) =
                  Cardinality(Range(meta_cols) \ Columns(metaFile.df))
            /\ calls[i].st[3].list = metaFile.df.cols

C6_Witness ==
    /\ Len(calls) > 0
    /\ HasAll(df_pathology, pathology_cols)
    /\ metaFile.state = "ok"
    /\ ADNC \notin Columns(metaFile.df)
    /\ DonorID \in Columns(metaFile.df)
    /\ calls[1].ret = ReturnNone

Markers == Range(Tail(pathology_cols))

\* C7: in every returned table every marker cell is a number or missing,
\* never a text, and the Donor ID cell is the text of the input.
C7_MarkersNumericOrMissing ==
    \A i \in TableCalls :
        \A n \in 1..Len(calls[i].ret.df.rows) :
            LET r == calls[i].ret.df.rows[n] IN
            /\ \A c \in Markers : r[c].k \in {"num", "nan"}
            /\ r[DonorID].k = "str"
            /\ r[DonorID] \in IDs(df_pathology)

C7_Witness ==
    \E i \in TableCalls :
        \E n \in 1..Len(calls[i].ret.df.rows), m \in 1..Len(df_pathology.rows) :
            /\ df_pathology.rows[m][DonorID] = calls[i].ret.df.rows[n][DonorID]
            /\ df_pathology.rows[m][AT8] = Str(T_Unavailable)
            /\ df_pathology.rows[m][Abeta] = Str(T_31)
            /\ calls[i].ret.df.rows[n][AT8] = NaN
            /\ calls[i].ret.df.rows[n][Abeta] = Num(31)

\* C8: a call of filtered ends with a table or with the MissingColumns value
\* None, never with an exception, whatever the state of the metadata file.
C8_FilteredNeverRaises ==
    \A i \in 1..Len(calls) : calls[i].ret.kind \in {"table", "None"}

----------------------------------------------------------------------------
(* Properties of the pathology page *)

\* C10: when filtered reports MissingColumns on the pathology page, the
\* render goes on through every later section and ends without an exception.
C10_PageSurvivesMissingColumns ==
    (pc # "start" /\ df_filtered.kind = "None") => pc # "raised"

----------------------------------------------------------------------------
(* Properties of a run of the application *)

\* C11: a load failure is never fatal: when a source file is unreadable, the
\* run, whichever menu entry is selected, raises no exception, and where it
\* has reached the end of the page it has shown an error message.
C11_LoadFailureNeverFatal ==
    (metaFile.state # "ok" \/ csvFile.state # "ok") =>
        /\ pc # "raised"
        /\ pc = "done" => \E i \in DOMAIN page : page[i].fn = "error"

\* what a loader that never raises has answered for a file: the table read
\* and no message, or the empty table and one error message
LoaderAnswer(ld, file, table) ==
    /\ ld.exc = ""
    /\ IF file.state = "ok"
       THEN ld.df = table /\ ld.st = <<>>
       ELSE ld.df = EmptyDF /\ Len(ld.st) = 1 /\ ld.st[1].fn = "error"

\* C12: load_data and load_csv never raise: for an unreadable file each
\* shows one error message and returns the empty table; for a readable file
\* each returns the table read (load_data: after cleaning) and shows nothing.
C12_LoadersNeverRaise ==
    pc # "app_start" =>
        /\ LoaderAnswer(donor_df, metaFile, clean_data(metaFile.df))
        /\ LoaderAnswer(mtg_df, csvFile, csvFile.df)

C12_Witness ==
    /\ pc = "dispatch"
    /\ metaFile.state = "malformed"
    /\ csvFile.state = "ok"
    /\ Len(csvFile.df.rows) > 0
    /\ donor_df.df = EmptyDF
    /\ Len(donor_df.st) = 1
    /\ mtg_df.df = csvFile.df
    /\ mtg_df.st = <<>>

----------------------------------------------------------------------------
(* Properties of the chart renderers *)

\* the table holds the columns the renderer of that name reads
HasNeededColumns(name, df) ==
    CASE name = "gender_donutchart"       -> Sex \in Columns(df)
      [] name = "age_barchart"            -> AgeAtDeath \in Columns(df)
      [] name = "apoe_genotype"           -> APOEGenotype \in Columns(df)
      [] name = "cognitive_status"        -> CognitiveStatus \in Columns(df)
      [] name = "adnc_distribution"       -> ADNC \in Columns(df)
      [] name = "apoe4_by_adnc"           -> {APOEGenotype, ADNC} \subseteq Columns(df)
      [] name = "dementia_by_adnc"        -> {CognitiveStatus, ADNC} \subseteq Columns(df)
      [] name = "at8_by_dementia_barplot" -> {AT8, Dementia_status} \subseteq Columns(df)
      [] name = "at8_scatter_by_dementia" -> {AT8, Dementia} \subseteq Columns(df)
      [] name = "at8_vs_adnc"             -> {DonorID, ADNC, AT8} \subseteq Columns(df)
      [] name = "abeta_vs_adnc"           -> {DonorID, ADNC, Abeta} \subseteq Columns(df)
      [] name = "correlation_heatmap_pathology" ->
             Cardinality(Columns(df) \cap Range(Tail(pathology_cols))) >= 3
      [] name = "neun_vs_adnc"            -> {DonorID, ADNC, NeuN} \subseteq Columns(df)
      [] name = "neun_vs_at8"             -> {DonorID, AT8, NeuN, Dementia_status} \subseteq Columns(df)

\* the charts and metrics among what a renderer showed
Artifacts(out) == SelectSeq(out.st, LAMBDA m : m.fn \in {"chart", "metric"})

\* C13: every renderer checks its columns first: on a table that lacks one
\* (or on None) it reports with an error message and returns, drawing
\* nothing and raising nothing; on any other table it draws one artifact
\* (one chart, or the one pair of metrics) and raises nothing.
C13_RenderersValidateColumns ==
    \A i \in DOMAIN rlog :
        LET e == rlog[i] IN
        /\ e.out.exc = ""
        /\ IF rtable.kind = "None" \/ ~HasNeededColumns(e.name, rtable.df)
           THEN /\ Artifacts(e.out) = <<>>
                /\ \E k \in DOMAIN e.out.st : e.out.st[k].fn = "error"
           ELSE /\ Artifacts(e.out) # <<>>
                /\ Cardinality({e.out.st[k].fn : k \in DOMAIN e.out.st} \cap {"chart", "metric"}) = 1
                /\ Len(SelectSeq(e.out.st, LAMBDA m : m.fn = "chart")) <= 1

----------------------------------------------------------------------------
(* Further properties of filtered *)

C17_EmptyTablesAreOrdinaryInput ==
    \A i \in 1..Len(calls) :
        /\ df_pathology.cols = <<>> =>
              /\ calls[i].ret = ReturnNone
              /\ Len(calls[i].st) >= 2
              /\ calls[i].st[2].list = pathology_cols
        /\ (HasAll(df_pathology, pathology_cols) /\ df_pathology.rows = <<>>) =>
              /\ calls[i].ret.kind = "table"
              /\ calls[i].ret.df.rows = <<>>

\* the columns of the analytic table, in the order the merge gives them
AnalyticCols ==
    pathology_cols \o <<CognitiveStatus, ADNC, Dementia, Dementia_status>>

----------------------------------------------------------------------------
(* Further properties of a run of the application *)

\* the positions of a run inside each page
OverviewPositions ==
    {"gender_donutchart", "age_barchart", "apoe_genotype", "cognitive_status",
     "dementia_by_adnc", "adnc_distribution", "apoe4_by_adnc", "done", "raised"}

PathologyPositions ==
    {"start", "at8_scatter_by_dementia", "at8_vs_adnc", "abeta_vs_adnc",
     "correlation_heatmap_pathology", "neun_vs_adnc", "neun_vs_at8", "closing",
     "done", "raised"}

\* the one page a selection stands for was called with its table, and the
\* run is inside that page
OnePageFor(sel, called, donor, mtg, at) ==
    /\ Len(called) = 1
    /\ sel = DashboardOverview =>
          /\ called[1] = [module |-> "overview", df |-> donor.df]
          /\ at \in OverviewPositions
    /\ sel = BrainPathology =>
          /\ called[1] = [module |-> "brain_pathology", df |-> mtg.df]
          /\ at \in PathologyPositions

\* C16: the controller is a pure dispatch on the current selection: a run
\* renders no page before the dispatch and exactly one after it, the
\* overview with the donor metadata table for "Dashboard Overview" and the
\* pathology page with the pathology table for "Brain pathology (MTG)",
\* whatever was selected in the runs before.
C16_ExactlyOnePagePerSelection ==
    /\ pc \in {"app_start", "dispatch"} => rendered = <<>>
    /\ pc \notin {"app_start", "dispatch"} =>
          OnePageFor(selection, rendered, donor_df, mtg_df, pc)
    /\ \A i \in DOMAIN runs :
          OnePageFor(runs[i].selection, runs[i].rendered, runs[i].donor_df,
                     runs[i].mtg_df, runs[i].pc)

C16_Witness ==
    /\ Len(runs) >= 1
    /\ runs[1].selection = DashboardOverview
    /\ runs[1].pc = "done"
    /\ selection = BrainPathology
    /\ pc = "done"
    /\ rendered[1].df # donor_df.df
    /\ Len(rendered[1].df.rows) > 0

----------------------------------------------------------------------------
(* Properties of what the charts display *)

\* the renderers whose chart shows the ADNC categories
ADNCRenderers ==
    {"adnc_distribution", "apoe4_by_adnc", "dementia_by_adnc", "at8_vs_adnc",
     "abeta_vs_adnc", "neun_vs_adnc", "neun_vs_at8"}

\* the ADNC values of the rows of a table
ADNCValues(df) == {df.rows[i][ADNC] : i \in 1..Len(df.rows)}

\* the four categories appear in a displayed sequence in their fixed order
InADNCOrder(shown) ==
    \A i, j \in 1..Len(shown) :
        (i < j /\ shown[i] \in Range(adnc_order) /\ shown[j] \in Range(adnc_order)) =>
            IndexOf(adnc_order, shown[i]) < IndexOf(adnc_order, shown[j])

\* C21: every chart that shows ADNC categories shows them in the order
\* Not AD, Low, Intermediate, High, whatever the order of the rows: the
\* categories displayed are values of the table's ADNC column, each once,
\* all of them but in abeta_vs_adnc (which drops rows with a missing
\* value), and the four named ones stand in that order.
C21_ADNCDisplayedInFixedOrder ==
    \A i \in DOMAIN rlog :
        \A k \in DOMAIN rlog[i].out.st :
            LET m == rlog[i].out.st[k] IN
            (rlog[i].name \in ADNCRenderers /\ m.fn = "chart"
                /\ rtable.kind = "table" /\ ADNC \in Columns(rtable.df)) =>
                /\ InADNCOrder(m.list)
                /\ Range(m.list) \subseteq ADNCValues(rtable.df)
                /\ Len(m.list) = Cardinality(Range(m.list))
                /\ rlog[i].name # "abeta_vs_adnc" =>
                      Range(m.list) = ADNCValues(rtable.df)

C21_Witness ==
    /\ Len(rlog) >= 2
    /\ rlog[1].name = "neun_vs_at8"
    /\ rlog[2].name = "abeta_vs_adnc"
    /\ rtable.kind = "table"
    /\ Len(rtable.df.rows) >= 3
    /\ rtable.df.rows[1][ADNC] = Str(T_Low)
    /\ rtable.df.rows[2][ADNC] = Str(T_High)
    /\ rtable.df.rows[3][ADNC] = Str(T_Not_AD)
    /\ rlog[1].out.st[1].list = <<Str(T_Not_AD), Str(T_Low), Str(T_High)>>
    /\ rlog[2].out.st[1].fn = "chart"
    /\ rlog[2].out.st[1].list # <<>>
    /\ Len(rlog[2].out.st[1].list) < Len(rlog[1].out.st[1].list)

----------------------------------------------------------------------------
(* Properties across the two pages *)

\* C22: a donor counts as having dementia on both pages or on neither: the
\* Dementia+ value dementia_by_adnc derived for a donor in an overview run
\* has the truth value of the Dementia flag filtered derives for the same
\* donor, from the same status text, in a run of the pathology page.
C22_DementiaAgreesAcrossPages ==
    \A r \in DOMAIN runs :
        (runs[r].selection = DashboardOverview /\ selection = BrainPathology
            /\ df_filtered.kind = "table") =>
            \A k \in DOMAIN runs[r].page :
                LET m == runs[r].page[k]
                    donors == runs[r].donor_df.df
                IN (m.fn = "chart" /\ m.text = "dementia_by_adnc") =>
                      \A i \in 1..Len(donors.rows), n \in 1..Len(df_filtered.df.rows) :
                          donors.rows[i][DonorID] = df_filtered.df.rows[n][DonorID] =>
                              m.data[i] = df_filtered.df.rows[n][Dementia]

----------------------------------------------------------------------------
(* The order of the checks of filtered *)

\* the error messages among what a call showed
Errors(st) == SelectSeq(st, LAMBDA m : m.fn = "error")

\* C23: filtered checks in a fixed order and stops at the first failure.
\* Of a call that got to its checks (the metadata file was read): when the
\* pathology table lacks a required column the call returns None with the
\* one error of the pathology check and its two lists, whatever the
\* metadata table lacks; when only the metadata table lacks one it returns
\* None with the one error of the metadata check; a call that returns None
\* derives nothing; and a table is returned, with no message, only when
\* both checks passed.
C23_ChecksInFixedOrder ==
    \A i \in 1..Len(calls) :
        metaFile.state = "ok" =>
            /\ ~HasAll(df_pathology, pathology_cols) =>
                  /\ calls[i].ret = ReturnNone
                  /\ Len(calls[i].st) = 3
                  /\ Errors(calls[i].st) = <<st_error("Missing pathology columns:")>>
                  /\ calls[i].st[3] = st_write("Available columns:", df_pathology.cols)
            /\ (HasAll(df_pathology, pathology_cols) /\ ~HasAll(metaFile.df, meta_cols)) =>
                  /\ calls[i].ret = ReturnNone
                  /\ Len(calls[i].st) = 3
                  /\ Errors(calls[i].st) = <<st_error("Missing metadata columns:")>>
            /\ calls[i].ret.kind = "None" => calls[i].ret.df = EmptyDF
            /\ calls[i].ret.kind = "table" <=> ChecksPass
            /\ calls[i].ret.kind = "table" =>
                  /\ calls[i].st = <<>>
                  /\ {Dementia, Dementia_status} \subseteq Columns(calls[i].ret.df)

C23_Witness ==
    /\ Len(calls) >= 1
    /\ metaFile.state = "ok"
    /\ ~HasAll(df_pathology, pathology_cols)
    /\ ~HasAll(metaFile.df, meta_cols)
    /\ metaFile.df.cols # <<>>
    /\ calls[1].ret = ReturnNone
    /\ Errors(calls[1].st) = <<st_error("Missing pathology columns:")>>

====
